---- MODULE Spec2Model ----
(***************************************************************************)
(* Model of the mock accelerator vfio-user server                         *)
(* (src/vfio-user/mock-accel-server.c): the device context built by       *)
(* main(), the BAR0 register callback bar0_access(), the passphrase       *)
(* generator generate_passphrase(), device_reset() and the PCI            *)
(* configuration-space callback config_space_access().                    *)
(*                                                                         *)
(* 32- and 64-bit register values travel as little-endian byte sequences  *)
(* (the code moves them with memcpy on a little-endian host); a value is  *)
(* turned into a number only where the code compares it.                  *)
(***************************************************************************)
EXTENDS Integers, Sequences, FiniteSets, TLC

(***************************************************************************)
(* Program constants                                                       *)
(***************************************************************************)
MOCK_ACCEL_VENDOR_ID == 7653       \* 0x1de5
MOCK_ACCEL_PF_DEVICE_ID == 1
MOCK_ACCEL_VF_DEVICE_ID == 2

REG_DEVICE_ID == 0
REG_REVISION == 4
REG_UUID == 8
REG_MEMORY_SIZE == 32              \* 0x20
REG_CAPABILITIES == 40             \* 0x28
REG_STATUS == 44                   \* 0x2C
REG_FW_VERSION == 48               \* 0x30
REG_PASSPHRASE_CMD == 256          \* 0x100
REG_PASSPHRASE_LENGTH == 260       \* 0x104
REG_PASSPHRASE_STATUS == 264       \* 0x108
REG_PASSPHRASE_COUNT == 268        \* 0x10C
REG_PASSPHRASE_BUFFER == 512       \* 0x200
BAR0_SIZE == 4096                  \* 0x1000

DEVICE_ID_MAGIC == <<77, 79, 67, 75>>   \* 0x4B434F4D, "MOCK"
REVISION == <<0, 0, 1, 0>>              \* 0x00010000
FW_VERSION == <<0, 0, 1, 0>>            \* 0x00010000
CAP_COMPUTE == <<1, 0, 0, 0>>           \* 1 << 0
STATUS_READY == <<1, 0, 0, 0>>          \* 1 << 0
DEFAULT_MEMORY_SIZE == <<0, 0, 0, 0, 4, 0, 0, 0>>      \* 16 GB
DEFAULT_VF_MEMORY_SIZE == <<0, 0, 0, 128, 0, 0, 0, 0>> \* 2 GB
MAX_VFS == 7
DEFAULT_TOTAL_VFS == 4
PCI_EXT_CAP_ID_SRIOV == 16         \* 0x10

WORDLIST_SLOTS == 7776             \* char *wordlist[7776]
PASSPHRASE_BUFFER_SIZE == 256      \* char passphrase_buffer[256]
SRIOV_CAP_ARRAY == 64              \* uint8_t sriov_cap[64]
STD_CONFIG_SIZE == 256             \* 0x100, standard config space
CONFIG_REGION_SIZE == 4096         \* size given to vfu_setup_region
MIN_WORDS == 4
MAX_WORDS == 12
RANDOM_MODULUS == 7776             \* index = index % 7776
UINT16_RANGE == 65536              \* (uint16_t) conversion

TAB == 9
SPACE == 32
FAIL == 0 - 1                      \* an entropy source that returned no value
NULLPTR == <<0 - 1>>               \* a wordlist slot that was never filled

(***************************************************************************)
(* Byte helpers                                                            *)
(***************************************************************************)
Min(a, b) == IF a <= b THEN a ELSE b

Zeros(n) == [i \in 1..n |-> 0]

Fill(n, b) == [i \in 1..n |-> b]

\* the 32-bit number held by four little-endian bytes (inputs stay below 2^31)
U32(b) == b[1] + 256 * b[2] + 65536 * b[3] + 16777216 * b[4]

\* the four little-endian bytes of a number below 2^31
LE32(v) == <<v % 256, (v \div 256) % 256, (v \div 65536) % 256, (v \div 16777216) % 256>>

\* memcpy(dst + at, src, n): dst with n bytes of src written from index at (0-based)
MemCpy(dst, at, src, n) ==
    [i \in 1..Len(dst) |-> IF i > at /\ i <= at + n THEN src[i - at] ELSE dst[i]]

(***************************************************************************)
(* State: struct mock_accel_state, the standard configuration header kept *)
(* by the transport library, the position of the process, and the last    *)
(* callback with what it returned.                                        *)
(***************************************************************************)
VARIABLES
    pc,                 \* "start", "serving", "exited" (startup refused), "crashed"
    uuid_bytes,         \* uint8_t uuid_bytes[16]
    memory_size,        \* uint64_t, little-endian bytes
    capabilities,       \* uint32_t, little-endian bytes
    status,             \* uint32_t, little-endian bytes
    is_vf,
    total_vfs,
    sriov_cap,          \* uint8_t sriov_cap[64]
    sriov_cap_size,
    wordlist,           \* the filled slots of char *wordlist[7776]: head, fill, count
    passphrase_buffer,  \* char passphrase_buffer[256]
    passphrase_length,
    passphrase_status,
    passphrase_count,
    config_space,       \* the 256-byte standard header (vfu_pci_get_config_space)
    op,                 \* the last callback: kind, offset, count, data, draws, ub
    ret,                \* what it returned (-1 for a failed access)
    obuf,               \* the caller's buffer after a read callback
    mdev                \* the kernel driver's struct mock_accel_dev: the wordlist fields

ident == <<uuid_bytes, memory_size, capabilities, is_vf, total_vfs, sriov_cap, sriov_cap_size, wordlist>>

passphrase == <<passphrase_buffer, passphrase_length, passphrase_status, passphrase_count>>

device == <<ident, status, passphrase>>

\* what the server process owns
server == <<pc, device, config_space>>

vars == <<pc, device, config_space, op, ret, obuf, mdev>>

NoUb == [hit |-> FALSE, segv |-> FALSE, word |-> <<>>]

NoOp == [kind |-> "none", offset |-> 0, count |-> 0, data |-> <<>>, draws |-> <<>>, ub |-> NoUb,
         uaccess |-> "ok"]

(***************************************************************************)
(* Startup: main() up to the event loop                                    *)
(***************************************************************************)
DEFAULT_UUID == <<77, 79, 67, 75, 45, 48, 48, 48, 48, 45, 48, 48, 48, 49>>  \* "MOCK-0000-0001"

\* parse_uuid: the first 16 characters of the string, the rest stays zero
parse_uuid(str) ==
    [i \in 1..16 |-> IF i <= Len(str) THEN str[i] ELSE 0]

HasTab(line) == \E i \in 1..Len(line) : line[i] = TAB

FirstTab(line) == CHOOSE i \in 1..Len(line) : line[i] = TAB /\ \A j \in 1..(i - 1) : line[j] # TAB

WordOf(line) == SubSeq(line, FirstTab(line) + 1, Len(line))

\* load_wordlist: lines without a tab are skipped, the word is what follows the
\* first tab, at most 7776 words are stored; a file that cannot be opened
\* stores nothing.  A file is its first lines (each without its newline)
\* followed by file.more copies of the line file.line; the filled slots are
\* kept the same way: head, then the word fill up to slot count - 1.
load_wordlist(file) ==
    IF ~file.exists THEN [head |-> <<>>, fill |-> <<>>, count |-> 0]
    ELSE LET good == SelectSeq(file.lines, HasTab)
             nhead == Min(Len(good), WORDLIST_SLOTS)
             more == IF HasTab(file.line) THEN file.more ELSE 0
         IN  [head |-> [i \in 1..nhead |-> WordOf(good[i])],
              fill |-> IF HasTab(file.line) THEN WordOf(file.line) ELSE <<>>,
              count |-> Min(nhead + more, WORDLIST_SLOTS)]

\* mutant: InitialVFs and TotalVFs stored high byte first
BuildSriovCap_BigEndian(tv) ==
    << PCI_EXT_CAP_ID_SRIOV, 0, 1, 0, 1, 0, 0, 0, 0, 0, 0, 0,
       (tv \div 256) % 256, tv % 256, (tv \div 256) % 256, tv % 256,
       0, 0, 0, 0, 1, 0, 1, 0, 0, 0,
       MOCK_ACCEL_VF_DEVICE_ID % 256, (MOCK_ACCEL_VF_DEVICE_ID \div 256) % 256 >>

\* mutant: the two reserved bytes before the VF device id are left out
BuildSriovCap_NoReserved(tv) ==
    << PCI_EXT_CAP_ID_SRIOV, 0, 1, 0, 1, 0, 0, 0, 0, 0, 0, 0,
       tv % 256, (tv \div 256) % 256, tv % 256, (tv \div 256) % 256,
       0, 0, 0, 0, 1, 0, 1, 0,
       MOCK_ACCEL_VF_DEVICE_ID % 256, (MOCK_ACCEL_VF_DEVICE_ID \div 256) % 256 >>

\* the SR-IOV extended capability main() builds for a physical function
BuildSriovCap(tv) ==
    << PCI_EXT_CAP_ID_SRIOV, 0, 1, 0,       \* header: ID 0x0010, version 1, next 0
       1, 0, 0, 0,                          \* SR-IOV Capabilities
       0, 0,                                \* Control
       0, 0,                                \* Status
       tv % 256, (tv \div 256) % 256,       \* InitialVFs
       tv % 256, (tv \div 256) % 256,       \* TotalVFs
       0, 0,                                \* NumVFs
       0,                                   \* Function Dependency Link
       0,                                   \* Reserved
       1, 0,                                \* First VF Offset
       1, 0,                                \* VF Stride
       0, 0,                                \* Reserved
       MOCK_ACCEL_VF_DEVICE_ID % 256, (MOCK_ACCEL_VF_DEVICE_ID \div 256) % 256 >>

\* the standard header after vfu_pci_init and vfu_pci_set_id
InitConfigSpace(device_id) ==
    [i \in 1..STD_CONFIG_SIZE |->
        IF i = 1 THEN MOCK_ACCEL_VENDOR_ID % 256
        ELSE IF i = 2 THEN MOCK_ACCEL_VENDOR_ID \div 256
        ELSE IF i = 3 THEN device_id % 256
        ELSE IF i = 4 THEN device_id \div 256
        ELSE 0]

Init ==
    /\ pc = "start"
    /\ uuid_bytes = Zeros(16)
    /\ memory_size = Zeros(8)
    /\ capabilities = CAP_COMPUTE
    /\ status = STATUS_READY
    /\ is_vf = FALSE
    /\ total_vfs = DEFAULT_TOTAL_VFS
    /\ sriov_cap = Zeros(SRIOV_CAP_ARRAY)
    /\ sriov_cap_size = 0
    /\ wordlist = [head |-> <<>>, fill |-> <<>>, count |-> 0]
    /\ passphrase_buffer = Zeros(PASSPHRASE_BUFFER_SIZE)
    /\ passphrase_length = 0
    /\ passphrase_status = 0
    /\ passphrase_count = 0
    /\ config_space = Zeros(STD_CONFIG_SIZE)
    /\ op = NoOp
    /\ ret = 0
    /\ obuf = <<>>
    /\ mdev = [bound |-> FALSE, wordlist_fw |-> FALSE, wordlist_loaded |-> FALSE,
               wordlist |-> NULLPTR, wordlist_count |-> 0,
               is_vf |-> FALSE, sriov_total_vfs |-> 0, sriov_num_vfs |-> 0,
               pdev |-> [is_virtfn |-> FALSE, enabled_vfs |-> 0]]

\* mutant: the limit is off by one
TotalVfsRefused_OffByOne(tv) == tv > MAX_VFS + 1

\* if (state.total_vfs > MAX_VFS) -> exit(EXIT_FAILURE)
TotalVfsRefused(tv) == tv > MAX_VFS

\* main(): option parsing, parse_uuid, load_wordlist, the capability, then serving.
\* An option is a record [set, val]; --total-vfs goes through (uint16_t)atoi.
Startup(uuidOpt, memOpt, vfOpt, tvOpt, file) ==
    /\ pc = "start"
    /\ LET tv == IF tvOpt.set THEN tvOpt.val % UINT16_RANGE ELSE total_vfs
       IN  IF tvOpt.set /\ TotalVfsRefused(tv)
           THEN /\ pc' = "exited"
                /\ total_vfs' = tv
                /\ UNCHANGED <<uuid_bytes, memory_size, capabilities, status, is_vf, sriov_cap,
                               sriov_cap_size, wordlist, passphrase, config_space>>
           ELSE /\ pc' = "serving"
                /\ total_vfs' = tv
                /\ is_vf' = vfOpt
                /\ uuid_bytes' = parse_uuid(IF uuidOpt.set THEN uuidOpt.val ELSE DEFAULT_UUID)
                /\ memory_size' = IF memOpt.set THEN memOpt.val
                                  ELSE IF vfOpt THEN DEFAULT_VF_MEMORY_SIZE ELSE DEFAULT_MEMORY_SIZE
                /\ wordlist' = load_wordlist(file)
                /\ IF ~vfOpt /\ tv > 0
                   THEN /\ sriov_cap' = MemCpy(sriov_cap, 0, BuildSriovCap(tv), Len(BuildSriovCap(tv)))
                        /\ sriov_cap_size' = Len(BuildSriovCap(tv))
                   ELSE UNCHANGED <<sriov_cap, sriov_cap_size>>
                /\ config_space' = InitConfigSpace(IF vfOpt THEN MOCK_ACCEL_VF_DEVICE_ID
                                                   ELSE MOCK_ACCEL_PF_DEVICE_ID)
                /\ UNCHANGED <<capabilities, status, passphrase>>
    /\ op' = [NoOp EXCEPT !.kind = "startup"]
    /\ ret' = 0
    /\ obuf' = <<>>
    /\ UNCHANGED mdev

(***************************************************************************)
(* generate_passphrase                                                     *)
(***************************************************************************)
NO_RETURN == 0 - 2                 \* the callback never returned (process killed)

\* mutant: the lower limit is not checked
LengthValid_NoLower(len) == len <= MAX_WORDS

\* if (passphrase_length < 4 || passphrase_length > 12) -> error
LengthValid(len) == len >= MIN_WORDS /\ len <= MAX_WORDS

\* if (!state->wordlist[0]) -> error
WordlistLoaded == wordlist.count > 0

\* mutant: /dev/urandom is asked first
DrawValue_SecondaryFirst(d) == IF d.sec # FAIL THEN d.sec ELSE d.prim

\* getrandom(), and /dev/urandom only when getrandom did not deliver
DrawValue(d) == IF d.prim # FAIL THEN d.prim ELSE d.sec

\* index = index % 7776
WordIndex(rnd) == rnd % RANDOM_MODULUS

\* state->wordlist[index]: a slot that load_wordlist never filled holds NULL
WordAt(index) ==
    IF index < Len(wordlist.head) THEN wordlist.head[index + 1]
    ELSE IF index < wordlist.count THEN wordlist.fill
    ELSE NULLPTR

\* mutant: the room left is not checked before the separator
SeparatorFits_Always(remaining) == TRUE

\* if (remaining < 1) -> overflow before the separator
SeparatorFits(remaining) == ~(remaining < 1)

\* mutant: the room left is not compared with the word
WordFits_Always(remaining, word_len) == TRUE

\* if (remaining < word_len) -> overflow before the word
WordFits(remaining, word_len) == ~(remaining < word_len)

\* The for loop, from word i on; out is what has been written behind
\* passphrase_buffer so far.  strlen(NULL) is undefined behaviour: ub says
\* whether the process is killed there or goes on with the bytes ub.word.
RECURSIVE GenLoop(_, _, _, _, _, _)
GenLoop(i, out, remaining, draws, ub, hit) ==
    IF ~(i < passphrase_length)
    THEN [status |-> 2, out |-> out, ready |-> TRUE, segv |-> FALSE, hit |-> hit]
    ELSE LET rnd == DrawValue(draws[i + 1])
         IN  IF rnd = FAIL
             THEN [status |-> 3, out |-> out, ready |-> FALSE, segv |-> FALSE, hit |-> hit]
             ELSE LET index == WordIndex(rnd)
                      isnull == WordAt(index) = NULLPTR
                      word == IF isnull THEN ub.word ELSE WordAt(index)
                      word_len == Len(word)
                      sepOk == i = 0 \/ SeparatorFits(remaining)
                      out1 == IF i > 0 /\ sepOk THEN Append(out, SPACE) ELSE out
                      rem1 == IF i > 0 /\ sepOk THEN remaining - 1 ELSE remaining
                  IN  IF isnull /\ ub.segv
                      THEN [status |-> 1, out |-> out, ready |-> FALSE, segv |-> TRUE, hit |-> TRUE]
                      ELSE IF ~sepOk
                      THEN [status |-> 3, out |-> out, ready |-> FALSE, segv |-> FALSE,
                            hit |-> hit \/ isnull]
                      ELSE IF ~WordFits(rem1, word_len)
                      THEN [status |-> 3, out |-> out1, ready |-> FALSE, segv |-> FALSE,
                            hit |-> hit \/ isnull]
                      ELSE GenLoop(i + 1, out1 \o word, rem1 - word_len, draws, ub, hit \/ isnull)

\* mutant: a failure inside the loop leaves the status at Busy
generate_passphrase_BusyOnFail(draws, ub) ==
    IF ~LengthValid(passphrase_length) \/ ~WordlistLoaded
    THEN [status |-> 3, buffer |-> passphrase_buffer, count |-> passphrase_count,
          segv |-> FALSE, hit |-> FALSE]
    ELSE LET r == GenLoop(0, <<>>, PASSPHRASE_BUFFER_SIZE - 1, draws, ub, FALSE)
         IN  [status |-> IF r.ready THEN 2 ELSE 1,
              buffer |-> r.out \o Zeros(PASSPHRASE_BUFFER_SIZE - Len(r.out)),
              count |-> IF r.ready THEN passphrase_length ELSE passphrase_count,
              segv |-> r.segv, hit |-> r.hit]

\* generate_passphrase: the passphrase fields when it returns (or is killed)
generate_passphrase(draws, ub) ==
    IF ~LengthValid(passphrase_length) \/ ~WordlistLoaded
    THEN [status |-> 3, buffer |-> passphrase_buffer, count |-> passphrase_count,
          segv |-> FALSE, hit |-> FALSE]
    ELSE LET r == GenLoop(0, <<>>, PASSPHRASE_BUFFER_SIZE - 1, draws, ub, FALSE)
         IN  [status |-> r.status,
              buffer |-> r.out \o Zeros(PASSPHRASE_BUFFER_SIZE - Len(r.out)),
              count |-> IF r.ready THEN passphrase_length ELSE passphrase_count,
              segv |-> r.segv, hit |-> r.hit]

(***************************************************************************)
(* bar0_access                                                             *)
(***************************************************************************)
\* the registers a write may target, each only with count == 4
IsStatusWrite(offset, count) == offset = REG_STATUS /\ count = 4

\* mutant: the count is not checked
IsLengthWrite_AnyCount(offset, count) == offset = REG_PASSPHRASE_LENGTH

IsLengthWrite(offset, count) == offset = REG_PASSPHRASE_LENGTH /\ count = 4

IsCmdWrite(offset, count) == offset = REG_PASSPHRASE_CMD /\ count = 4

\* mutant: the upper limit is off by one
LengthAccepted_OffByOne(length) == length >= MIN_WORDS /\ length <= MAX_WORDS + 1

\* if (length >= 4 && length <= 12) in the PassphraseLength write
LengthAccepted(length) == length >= MIN_WORDS /\ length <= MAX_WORDS

\* mutant: only the low byte of the command is compared
IsGenerate_LowByte(offset, data) == IsCmdWrite(offset, Len(data)) /\ data[1] = 1

IsGenerate(offset, data) == IsCmdWrite(offset, Len(data)) /\ U32(data) = 1

\* mutant: only the low byte of a Status write is stored
StatusWritten_LowByte(data) == <<data[1], 0, 0, 0>>

\* memcpy(&state->status, buf, 4)
StatusWritten(data) == SubSeq(data, 1, 4)

\* no generation took place
NoGen == [status |-> 0, buffer |-> <<>>, count |-> 0, segv |-> FALSE, hit |-> FALSE]

\* the write half of bar0_access; data is the caller's buffer, count its length
Bar0Write(offset, data, draws, ub) ==
    /\ pc = "serving"
    /\ \E g \in {IF IsGenerate(offset, data) THEN generate_passphrase(draws, ub) ELSE NoGen} :
       LET count == Len(data)
           gen == IsGenerate(offset, data)
       IN  /\ IF IsStatusWrite(offset, count)
              THEN /\ status' = StatusWritten(data)
                   /\ ret' = count
                   /\ UNCHANGED <<pc, passphrase>>
              ELSE IF IsLengthWrite(offset, count)
              THEN /\ IF LengthAccepted(U32(data))
                      THEN passphrase_length' = U32(data) /\ ret' = count
                      ELSE passphrase_length' = passphrase_length /\ ret' = 0 - 1
                   /\ UNCHANGED <<pc, status, passphrase_buffer, passphrase_status, passphrase_count>>
              ELSE IF IsCmdWrite(offset, count)
              THEN /\ IF gen
                      THEN /\ passphrase_status' = g.status
                           /\ passphrase_buffer' = g.buffer
                           /\ passphrase_count' = g.count
                           /\ pc' = IF g.segv THEN "crashed" ELSE pc
                           /\ ret' = IF g.segv THEN NO_RETURN ELSE count
                      ELSE /\ ret' = count
                           /\ UNCHANGED <<pc, passphrase_status, passphrase_buffer, passphrase_count>>
                   /\ UNCHANGED <<status, passphrase_length>>
              ELSE /\ ret' = 0 - 1
                   /\ UNCHANGED <<pc, status, passphrase>>
           /\ op' = [NoOp EXCEPT !.kind = "write", !.offset = offset, !.count = count, !.data = data,
                                 !.draws = IF gen THEN draws ELSE <<>>,
                                 !.ub = IF gen /\ g.hit THEN [ub EXCEPT !.hit = TRUE] ELSE NoUb]
    /\ obuf' = <<>>
    /\ UNCHANGED <<ident, config_space>>
    /\ UNCHANGED mdev

\* value_size of the fixed-width register at an offset, 0 when the switch has
\* no such case
ValueSize(offset) ==
    IF offset = REG_MEMORY_SIZE THEN 8
    ELSE IF offset \in {REG_DEVICE_ID, REG_REVISION, REG_CAPABILITIES, REG_STATUS, REG_FW_VERSION,
                        REG_PASSPHRASE_LENGTH, REG_PASSPHRASE_STATUS, REG_PASSPHRASE_COUNT} THEN 4
    ELSE 0

\* uint64_t value of the fixed-width register at an offset, as 8 little-endian bytes
Value(offset) ==
    IF offset = REG_DEVICE_ID THEN DEVICE_ID_MAGIC \o Zeros(4)
    ELSE IF offset = REG_REVISION THEN REVISION \o Zeros(4)
    ELSE IF offset = REG_MEMORY_SIZE THEN memory_size
    ELSE IF offset = REG_CAPABILITIES THEN capabilities \o Zeros(4)
    ELSE IF offset = REG_STATUS THEN status \o Zeros(4)
    ELSE IF offset = REG_FW_VERSION THEN FW_VERSION \o Zeros(4)
    ELSE IF offset = REG_PASSPHRASE_LENGTH THEN LE32(passphrase_length) \o Zeros(4)
    ELSE IF offset = REG_PASSPHRASE_STATUS THEN LE32(passphrase_status) \o Zeros(4)
    ELSE IF offset = REG_PASSPHRASE_COUNT THEN LE32(passphrase_count) \o Zeros(4)
    ELSE Zeros(8)

\* case REG_UUID ... REG_UUID + 15
InUuid(offset) == offset >= REG_UUID /\ offset <= REG_UUID + 15

\* case REG_PASSPHRASE_BUFFER ... REG_PASSPHRASE_BUFFER + 255
InBuffer(offset) == offset >= REG_PASSPHRASE_BUFFER /\ offset <= REG_PASSPHRASE_BUFFER + 255

\* the multi-byte UUID loop: how many bytes it stores
UuidCopied(offset, count) == Min(count, 16 - (offset - REG_UUID))

\* what the UUID case returns
UuidReturn(offset, count) == count

\* mutant: the copy is clipped one byte early
BufferCopyLen_OffByOne(offset, count) ==
    IF (offset - REG_PASSPHRASE_BUFFER) + count > PASSPHRASE_BUFFER_SIZE - 1
    THEN PASSPHRASE_BUFFER_SIZE - 1 - (offset - REG_PASSPHRASE_BUFFER)
    ELSE count

\* copy_len of the passphrase-buffer case
BufferCopyLen(offset, count) ==
    IF (offset - REG_PASSPHRASE_BUFFER) + count > PASSPHRASE_BUFFER_SIZE
    THEN PASSPHRASE_BUFFER_SIZE - (offset - REG_PASSPHRASE_BUFFER)
    ELSE count

\* case REG_UUID ... REG_UUID + 15
UuidRead(offset, buf) ==
    IF Len(buf) = 1
    THEN [ret |-> 1, buf |-> <<uuid_bytes[offset - REG_UUID + 1]>>]
    ELSE [ret |-> UuidReturn(offset, Len(buf)),
          buf |-> MemCpy(buf, 0, SubSeq(uuid_bytes, offset - REG_UUID + 1, 16),
                         UuidCopied(offset, Len(buf)))]

\* case REG_PASSPHRASE_BUFFER ... REG_PASSPHRASE_BUFFER + 255
BufferRead(offset, buf) ==
    [ret |-> BufferCopyLen(offset, Len(buf)),
     buf |-> MemCpy(buf, 0,
                    SubSeq(passphrase_buffer, offset - REG_PASSPHRASE_BUFFER + 1,
                           PASSPHRASE_BUFFER_SIZE),
                    BufferCopyLen(offset, Len(buf)))]

\* mutant: the buffer is not cleared
DefaultRead_NoClear(buf) == [ret |-> Len(buf), buf |-> buf]

\* default: memset(buf, 0, count); return count
DefaultRead(buf) == [ret |-> Len(buf), buf |-> Zeros(Len(buf))]

\* mutant: a wide read does not clear the caller's buffer
FixedRead_NoZero(offset, buf) ==
    IF Len(buf) > ValueSize(offset)
    THEN [ret |-> ValueSize(offset), buf |-> MemCpy(buf, 0, Value(offset), ValueSize(offset))]
    ELSE [ret |-> Len(buf), buf |-> MemCpy(buf, 0, Value(offset), Len(buf))]

\* "Copy value to buffer", after the switch set value and value_size
FixedRead(offset, buf) ==
    IF Len(buf) > ValueSize(offset)
    THEN [ret |-> ValueSize(offset),
          buf |-> MemCpy(Zeros(Len(buf)), 0, Value(offset), ValueSize(offset))]
    ELSE [ret |-> Len(buf), buf |-> MemCpy(buf, 0, Value(offset), Len(buf))]

\* the read half of bar0_access: the caller's buffer buf (count bytes) after
\* the call, and the return value
Bar0ReadResult(offset, buf) ==
    IF InUuid(offset) THEN UuidRead(offset, buf)
    ELSE IF InBuffer(offset) THEN BufferRead(offset, buf)
    ELSE IF ValueSize(offset) = 0 THEN DefaultRead(buf)
    ELSE FixedRead(offset, buf)

\* mutant: reading the passphrase buffer sets PassphraseStatus back to Idle
Bar0Read_ClearsOnRead(offset, buf) ==
    /\ pc = "serving"
    /\ op' = [NoOp EXCEPT !.kind = "read", !.offset = offset, !.count = Len(buf), !.data = buf]
    /\ \E r \in {Bar0ReadResult(offset, buf)} : ret' = r.ret /\ obuf' = r.buf
    /\ passphrase_status' = IF InBuffer(offset) THEN 0 ELSE passphrase_status
    /\ UNCHANGED <<pc, ident, status, passphrase_buffer, passphrase_length, passphrase_count,
                   config_space>>
    /\ UNCHANGED mdev

Bar0Read(offset, buf) ==
    /\ pc = "serving"
    /\ op' = [NoOp EXCEPT !.kind = "read", !.offset = offset, !.count = Len(buf), !.data = buf]
    /\ \E r \in {Bar0ReadResult(offset, buf)} : ret' = r.ret /\ obuf' = r.buf
    /\ UNCHANGED <<pc, device, config_space>>
    /\ UNCHANGED mdev

(***************************************************************************)
(* device_reset                                                            *)
(***************************************************************************)
\* mutant: the passphrase buffer is not cleared
device_reset_KeepsBuffer ==
    /\ pc = "serving"
    /\ status' = STATUS_READY
    /\ passphrase_status' = 0
    /\ passphrase_count' = 0
    /\ op' = [NoOp EXCEPT !.kind = "reset"]
    /\ ret' = 0
    /\ obuf' = <<>>
    /\ UNCHANGED <<pc, ident, passphrase_length, passphrase_buffer, config_space>>
    /\ UNCHANGED mdev

\* mutant: the configured word count is cleared as well
device_reset_ClearsLength ==
    /\ pc = "serving"
    /\ status' = STATUS_READY
    /\ passphrase_status' = 0
    /\ passphrase_count' = 0
    /\ passphrase_length' = 0
    /\ passphrase_buffer' = Zeros(PASSPHRASE_BUFFER_SIZE)
    /\ op' = [NoOp EXCEPT !.kind = "reset"]
    /\ ret' = 0
    /\ obuf' = <<>>
    /\ UNCHANGED <<pc, ident, config_space>>
    /\ UNCHANGED mdev

device_reset ==
    /\ pc = "serving"
    /\ status' = STATUS_READY
    /\ passphrase_status' = 0
    /\ passphrase_count' = 0
    /\ passphrase_buffer' = Zeros(PASSPHRASE_BUFFER_SIZE)
    /\ op' = [NoOp EXCEPT !.kind = "reset"]
    /\ ret' = 0
    /\ obuf' = <<>>
    /\ UNCHANGED <<pc, ident, passphrase_length, config_space>>
    /\ UNCHANGED mdev

(***************************************************************************)
(* config_space_access (registered for a physical function only)          *)
(***************************************************************************)
\* std_bytes: the part of the request below 0x100
\* mutant: one byte less is copied
StdBytes_OneShort(offset, count) ==
    IF offset < STD_CONFIG_SIZE
    THEN (IF offset + count <= STD_CONFIG_SIZE THEN count - 1 ELSE STD_CONFIG_SIZE - offset)
    ELSE 0

StdBytes(offset, count) ==
    IF offset < STD_CONFIG_SIZE
    THEN (IF offset + count <= STD_CONFIG_SIZE THEN count ELSE STD_CONFIG_SIZE - offset)
    ELSE 0

\* mutant: the copy is limited by the array, not by the capability size
CapBytes_WholeArray(ext_offset, ext_bytes) ==
    IF ext_offset < sriov_cap_size
    THEN (IF ext_offset + ext_bytes <= SRIOV_CAP_ARRAY THEN ext_bytes
          ELSE SRIOV_CAP_ARRAY - ext_offset)
    ELSE 0

\* cap_bytes: the part of the extended request served from sriov_cap
CapBytes(ext_offset, ext_bytes) ==
    IF ext_offset < sriov_cap_size
    THEN (IF ext_offset + ext_bytes <= sriov_cap_size THEN ext_bytes
          ELSE sriov_cap_size - ext_offset)
    ELSE 0

\* the read branch: the caller's buffer after the call
CfgReadBuf(offset, buf) ==
    LET count == Len(buf)
        buf1 == IF offset < STD_CONFIG_SIZE
                THEN MemCpy(buf, 0, SubSeq(config_space, offset + 1, STD_CONFIG_SIZE),
                            StdBytes(offset, count))
                ELSE buf
    IN  IF offset + count > STD_CONFIG_SIZE
        THEN LET ext_start == IF offset >= STD_CONFIG_SIZE THEN 0 ELSE STD_CONFIG_SIZE - offset
                 ext_offset == IF offset >= STD_CONFIG_SIZE THEN offset - STD_CONFIG_SIZE ELSE 0
                 ext_bytes == count - ext_start
                 cap_bytes == CapBytes(ext_offset, ext_bytes)
                 buf2 == MemCpy(buf1, ext_start,
                                SubSeq(sriov_cap, ext_offset + 1, SRIOV_CAP_ARRAY), cap_bytes)
             IN  MemCpy(buf2, ext_start + cap_bytes, Fill(ext_bytes - cap_bytes, 255),
                        ext_bytes - cap_bytes)
        ELSE buf1

\* mutant: a write that crosses offset 0x100 is dropped as a whole
CfgWriteHeader_DropSpanning(offset, data) ==
    IF offset + Len(data) <= STD_CONFIG_SIZE
    THEN MemCpy(config_space, offset, data, Len(data))
    ELSE config_space

\* the write branch: the standard header after the call
CfgWriteHeader(offset, data) ==
    IF offset < STD_CONFIG_SIZE
    THEN MemCpy(config_space, offset, data, StdBytes(offset, Len(data)))
    ELSE config_space

\* mutant: a read of the command register clears it
ConfigRead_ClearsCommand(offset, buf) ==
    /\ pc = "serving"
    /\ ~is_vf
    /\ op' = [NoOp EXCEPT !.kind = "cfgread", !.offset = offset, !.count = Len(buf), !.data = buf]
    /\ ret' = Len(buf)
    /\ obuf' = CfgReadBuf(offset, buf)
    /\ config_space' = [config_space EXCEPT ![5] = 0]
    /\ UNCHANGED <<pc, device>>
    /\ UNCHANGED mdev

ConfigRead(offset, buf) ==
    /\ pc = "serving"
    /\ ~is_vf
    /\ op' = [NoOp EXCEPT !.kind = "cfgread", !.offset = offset, !.count = Len(buf), !.data = buf]
    /\ ret' = Len(buf)
    /\ obuf' = CfgReadBuf(offset, buf)
    /\ UNCHANGED <<pc, device, config_space>>
    /\ UNCHANGED mdev

\* mutant: bytes written to the extended space land in the capability
ConfigWrite_IntoCap(offset, data) ==
    /\ pc = "serving"
    /\ ~is_vf
    /\ config_space' = CfgWriteHeader(offset, data)
    /\ sriov_cap' = IF offset >= STD_CONFIG_SIZE /\ offset - STD_CONFIG_SIZE + Len(data) <= SRIOV_CAP_ARRAY
                    THEN MemCpy(sriov_cap, offset - STD_CONFIG_SIZE, data, Len(data))
                    ELSE sriov_cap
    /\ op' = [NoOp EXCEPT !.kind = "cfgwrite", !.offset = offset, !.count = Len(data), !.data = data]
    /\ ret' = Len(data)
    /\ obuf' = <<>>
    /\ UNCHANGED <<pc, uuid_bytes, memory_size, capabilities, is_vf, total_vfs, sriov_cap_size,
                   wordlist, status, passphrase>>
    /\ UNCHANGED mdev

ConfigWrite(offset, data) ==
    /\ pc = "serving"
    /\ ~is_vf
    /\ config_space' = CfgWriteHeader(offset, data)
    /\ op' = [NoOp EXCEPT !.kind = "cfgwrite", !.offset = offset, !.count = Len(data), !.data = data]
    /\ ret' = Len(data)
    /\ obuf' = <<>>
    /\ UNCHANGED <<pc, device>>
    /\ UNCHANGED mdev

(***************************************************************************)
(* The kernel driver (src/kernel-driver/mock-accel.c): the wordlist it     *)
(* loads as firmware and the passphrase ioctl of its character device      *)
(***************************************************************************)
MOCK_ACCEL_WORDLIST_SIZE == 7776
MOCK_ACCEL_MAX_WORDS == 12
MOCK_ACCEL_DEFAULT_WORDS == 6
PASSPHRASE_FIELD_SIZE == 256       \* char passphrase[256] of struct mock_accel_passphrase
WORD_COUNT_RANGE == 256            \* u8 word_count
U16_RANGE == 65536                 \* u16 indices[]
HYPHEN == 45
CR == 13
ENOENT == 2
ENOMEM == 12
EFAULT == 14
EINVAL == 22
ENOSPC == 28

\* *line == ' ' || *line == '\t' || *line == '\r'
IsBlank(c) == c \in {SPACE, TAB, CR}

\* while (*line is blank) line++
RECURSIVE SkipBlanks(_)
SkipBlanks(line) == IF line # <<>> /\ IsBlank(Head(line)) THEN SkipBlanks(Tail(line)) ELSE line

\* while (end > line && *end is blank) *end-- = '\0'
RECURSIVE TrimEnd(_)
TrimEnd(line) ==
    IF Len(line) > 1 /\ IsBlank(line[Len(line)]) THEN TrimEnd(SubSeq(line, 1, Len(line) - 1))
    ELSE line

\* the parse loop over the lines of the firmware image; words are those
\* stored so far
RECURSIVE ParseLines(_, _)
ParseLines(lines, words) ==
    IF lines = <<>> \/ ~(Len(words) < MOCK_ACCEL_WORDLIST_SIZE) THEN words
    ELSE LET line == SkipBlanks(Head(lines))
         IN  ParseLines(Tail(lines), IF line # <<>> THEN Append(words, TrimEnd(line)) ELSE words)

\* mock_accel_load_wordlist on the fields m: fw is what request_firmware
\* finds ([err, lines]), alloc names the allocation that fails ("none",
\* "array", "data", "word")
mock_accel_load_wordlist(m, fw, alloc) ==
    IF fw.err # 0 THEN [ret |-> 0 - fw.err, m |-> m]
    ELSE IF alloc \in {"array", "data"}
    THEN [ret |-> 0 - ENOMEM, m |-> [m EXCEPT !.wordlist = NULLPTR, !.wordlist_fw = FALSE]]
    ELSE LET words == ParseLines(fw.lines, <<>>)
         IN  IF alloc = "word" /\ words # <<>>
             THEN [ret |-> 0 - ENOMEM, m |-> [m EXCEPT !.wordlist = NULLPTR, !.wordlist_fw = FALSE]]
             ELSE [ret |-> 0,
                   m |-> [m EXCEPT !.wordlist = words, !.wordlist_fw = TRUE,
                                   !.wordlist_count = Len(words)]]

mock_accel_free_wordlist(m) ==
    [m EXCEPT !.wordlist = NULLPTR, !.wordlist_fw = FALSE, !.wordlist_count = 0,
              !.wordlist_loaded = FALSE]

\* mock_accel_probe: virtfn is pdev->is_virtfn, cap_total_vfs the TotalVFs
\* word of the SR-IOV capability (0 when the device has none), probe_err the
\* errno of a step that fails (0 for none); a failed wordlist load is not
\* fatal.  mdev.pdev stands for the PCI core's view of the device.
mock_accel_probe(virtfn, cap_total_vfs, fw, alloc, probe_err) ==
    /\ ~mdev.bound
    /\ IF probe_err # 0
       THEN mdev' = mdev /\ ret' = 0 - probe_err
       ELSE /\ mdev' = [mock_accel_load_wordlist(mdev, fw, alloc).m EXCEPT
                           !.bound = TRUE,
                           !.is_vf = virtfn,
                           !.sriov_num_vfs = 0,
                           !.sriov_total_vfs = IF virtfn THEN 0 ELSE cap_total_vfs,
                           !.pdev = [is_virtfn |-> virtfn, enabled_vfs |-> 0]]
            /\ ret' = 0
    /\ op' = [NoOp EXCEPT !.kind = "probe"]
    /\ obuf' = <<>>
    /\ UNCHANGED server

\* mutant: the upper limit is not checked
NumVfsRefused_NoUpper(num_vfs) == num_vfs < 0

\* if (num_vfs < 0 || num_vfs > mdev->sriov_total_vfs) return -EINVAL
NumVfsRefused(num_vfs) == num_vfs < 0 \/ num_vfs > mdev.sriov_total_vfs

\* sysfs attribute sriov_numvfs, written with count bytes: parsed is what
\* kstrtoint makes of them ([err, val]), enable_err the errno with which
\* pci_enable_sriov fails (0 when it succeeds)
sriov_numvfs_store(count, parsed, enable_err) ==
    /\ mdev.bound
    /\ op' = [NoOp EXCEPT !.kind = "sriov_numvfs", !.count = count, !.offset = parsed.val,
                          !.data = <<parsed.err, enable_err>>]
    /\ obuf' = <<>>
    /\ IF mdev.is_vf THEN mdev' = mdev /\ ret' = 0 - EINVAL
       ELSE IF parsed.err # 0 THEN mdev' = mdev /\ ret' = 0 - parsed.err
       ELSE IF NumVfsRefused(parsed.val) THEN mdev' = mdev /\ ret' = 0 - EINVAL
       ELSE IF parsed.val = 0 /\ mdev.sriov_num_vfs > 0
       THEN /\ mdev' = [mdev EXCEPT !.pdev.enabled_vfs = 0, !.sriov_num_vfs = 0]
            /\ ret' = count
       ELSE IF parsed.val > 0
       THEN LET disabled == IF mdev.sriov_num_vfs > 0 THEN 0 ELSE mdev.pdev.enabled_vfs
            IN  IF enable_err # 0
                THEN /\ mdev' = [mdev EXCEPT !.pdev.enabled_vfs = disabled, !.sriov_num_vfs = 0]
                     /\ ret' = 0 - enable_err
                ELSE /\ mdev' = [mdev EXCEPT !.pdev.enabled_vfs = parsed.val,
                                             !.sriov_num_vfs = parsed.val]
                     /\ ret' = count
       ELSE mdev' = mdev /\ ret' = count
    /\ UNCHANGED server

\* sysfs attribute load_wordlist, written with count bytes
load_wordlist_store(count, fw, alloc) ==
    /\ mdev.bound
    /\ LET r == mock_accel_load_wordlist(mock_accel_free_wordlist(mdev), fw, alloc)
       IN  IF r.ret # 0
           THEN mdev' = r.m /\ ret' = r.ret
           ELSE mdev' = [r.m EXCEPT !.wordlist_loaded = TRUE] /\ ret' = count
    /\ op' = [NoOp EXCEPT !.kind = "load_wordlist", !.count = count]
    /\ obuf' = <<>>
    /\ UNCHANGED server

\* mutant: a word count of 0 is taken as it is
DefaultedCount_Zero(word_count) == word_count

\* if (word_count == 0) word_count = MOCK_ACCEL_DEFAULT_WORDS
DefaultedCount(word_count) ==
    IF word_count = 0 THEN MOCK_ACCEL_DEFAULT_WORDS ELSE word_count

\* if (offset + word_len + 2 > output_size) return -ENOSPC
NoSpace(offset, word_len, output_size) == offset + word_len + 2 > output_size

\* the "Build passphrase string" loop from word i on; output is the kernel's
\* copy of the passphrase field
RECURSIVE BuildLoop(_, _, _, _, _)
BuildLoop(i, offset, output, word_count, indices) ==
    IF ~(i < word_count)
    THEN [ret |-> 0, output |-> [output EXCEPT ![offset + 1] = 0]]
    ELSE LET word == mdev.wordlist[(indices[i + 1] % mdev.wordlist_count) + 1]
             word_len == Len(word)
         IN  IF NoSpace(offset, word_len, Len(output))
             THEN [ret |-> 0 - ENOSPC, output |-> output]
             ELSE LET out1 == MemCpy(output, offset, word, word_len)
                  IN  IF i < word_count - 1
                      THEN BuildLoop(i + 1, offset + word_len + 1,
                                     [out1 EXCEPT ![offset + word_len + 1] = HYPHEN],
                                     word_count, indices)
                      ELSE BuildLoop(i + 1, offset + word_len, out1, word_count, indices)

mock_accel_generate_passphrase(word_count, output, indices) ==
    IF mdev.wordlist = NULLPTR \/ mdev.wordlist_count = 0
    THEN [ret |-> 0 - ENOENT, output |-> output]
    ELSE IF DefaultedCount(word_count) > MOCK_ACCEL_MAX_WORDS
    THEN [ret |-> 0 - EINVAL, output |-> output]
    ELSE BuildLoop(0, 0, output, DefaultedCount(word_count), indices)

\* mock_accel_ioctl, case MOCK_ACCEL_IOC_PASSPHRASE: pass is the caller's
\* struct, indices what get_random_bytes delivers, uaccess tells which copy
\* between user and kernel fails ("ok", "from", "to")
mock_accel_ioctl(pass, indices, uaccess) ==
    /\ mdev.bound
    /\ op' = [NoOp EXCEPT !.kind = "ioctl", !.count = pass.word_count, !.data = pass.passphrase,
                          !.draws = indices, !.uaccess = uaccess]
    /\ IF uaccess = "from"
       THEN ret' = 0 - EFAULT /\ obuf' = pass.passphrase
       ELSE IF pass.word_count > MOCK_ACCEL_MAX_WORDS
       THEN ret' = 0 - EINVAL /\ obuf' = pass.passphrase
       ELSE \E g \in {mock_accel_generate_passphrase(pass.word_count, pass.passphrase, indices)} :
               IF g.ret # 0 THEN ret' = g.ret /\ obuf' = pass.passphrase
               ELSE IF uaccess = "to" THEN ret' = 0 - EFAULT /\ obuf' = pass.passphrase
               ELSE ret' = 0 /\ obuf' = g.output
    /\ UNCHANGED <<server, mdev>>

(***************************************************************************)
(* Inputs                                                                  *)
(***************************************************************************)
LongWordLen == 63                  \* 4 such words and 3 separators fill 255 bytes
ExtraLines == 1                    \* lines of the full file beyond the 7776 slots
MaxTotalVfsArg == 9                \* --total-vfs arguments 0..MaxTotalVfsArg
MaxSplit == 2                      \* a draw sequence changes its outcome before word 1..MaxSplit

NoSeqOpt == [set |-> FALSE, val |-> <<>>]

NoIntOpt == [set |-> FALSE, val |-> 0]

LongWord == Fill(LongWordLen, 120)

NoFile == [exists |-> FALSE, lines |-> <<>>, more |-> 0, line |-> <<>>]

\* a short file: three words, and one line without a tab
PartialFile == [exists |-> TRUE,
                lines |-> << <<49, TAB, 97>>, <<35, 32, 99>>, <<49, TAB>> \o LongWord,
                             <<49, 50, TAB, 98, 99>> >>,
                more |-> 0, line |-> <<>>]

\* a file with more lines than slots: "1<TAB>x...x", "1<TAB>ab", then "1<TAB>w" repeated
FullFile == [exists |-> TRUE,
             lines |-> << <<49, TAB>> \o LongWord, <<49, TAB, 97, 98>> >>,
             more |-> WORDLIST_SLOTS + ExtraLines - 2, line |-> <<49, TAB, 119>>]

WordlistFiles == {NoFile, PartialFile, FullFile}

\* one draw: what getrandom delivered and what /dev/urandom would deliver
EntropyDraws == {[prim |-> 0, sec |-> 7779], [prim |-> FAIL, sec |-> 7779],
                 [prim |-> FAIL, sec |-> FAIL]}

\* the draws of one generation: outcome a before word k, outcome b from word k on
DrawSeq(a, b, k) == [i \in 1..12 |-> IF i < k THEN a ELSE b]

\* what dereferencing a NULL wordlist slot may do
UbOutcomes == {[hit |-> FALSE, segv |-> TRUE, word |-> <<>>],
               [hit |-> FALSE, segv |-> FALSE, word |-> <<238>>]}

\* register writes other than "generate"
RegWrites ==
    {[offset |-> REG_STATUS, data |-> <<255, 255, 255, 255>>],
     [offset |-> REG_STATUS, data |-> <<7, 7>>],
     [offset |-> REG_PASSPHRASE_LENGTH, data |-> <<3, 0, 0, 0>>],
     [offset |-> REG_PASSPHRASE_LENGTH, data |-> <<4, 0, 0, 0>>],
     [offset |-> REG_PASSPHRASE_LENGTH, data |-> <<12, 0, 0, 0>>],
     [offset |-> REG_PASSPHRASE_LENGTH, data |-> <<13, 0, 0, 0>>],
     [offset |-> REG_PASSPHRASE_LENGTH, data |-> <<4, 1, 0, 0>>],
     [offset |-> REG_PASSPHRASE_LENGTH, data |-> <<6, 0, 0, 0, 0, 0, 0, 0>>],
     [offset |-> REG_PASSPHRASE_LENGTH + 1, data |-> <<6, 0, 0, 0>>],
     [offset |-> REG_PASSPHRASE_CMD, data |-> <<0, 0, 0, 0>>],
     [offset |-> REG_PASSPHRASE_CMD, data |-> <<1, 1, 0, 0>>],
     [offset |-> REG_PASSPHRASE_CMD, data |-> <<1>>],
     [offset |-> REG_DEVICE_ID, data |-> <<9, 9, 9, 9>>],
     [offset |-> REG_PASSPHRASE_STATUS, data |-> <<0, 0, 0, 0>>],
     [offset |-> REG_PASSPHRASE_BUFFER, data |-> <<65, 65, 65, 65>>]}

\* register reads: offset, count and the byte the caller's buffer is filled with
RegReads ==
    {[offset |-> REG_STATUS, count |-> 4, fill |-> 0],
     [offset |-> REG_PASSPHRASE_LENGTH, count |-> 4, fill |-> 0],
     [offset |-> REG_PASSPHRASE_STATUS, count |-> 4, fill |-> 0],
     [offset |-> REG_PASSPHRASE_COUNT, count |-> 4, fill |-> 0],
     [offset |-> REG_PASSPHRASE_BUFFER, count |-> PASSPHRASE_BUFFER_SIZE, fill |-> 0],
     [offset |-> REG_UUID + 12, count |-> 8, fill |-> 0],
     [offset |-> REG_UUID + 12, count |-> 8, fill |-> 170]}

(***************************************************************************)
(* The device serving BAR0 accesses and resets                             *)
(***************************************************************************)
Next ==
    \/ \E file \in WordlistFiles : Startup(NoSeqOpt, NoSeqOpt, FALSE, NoIntOpt, file)
    \/ \E w \in RegWrites : Bar0Write(w.offset, w.data, <<>>, NoUb)
    \/ \E a \in EntropyDraws, b \in EntropyDraws, k \in 1..MaxSplit, ub \in UbOutcomes :
          Bar0Write(REG_PASSPHRASE_CMD, LE32(1), DrawSeq(a, b, k), ub)
    \/ \E r \in RegReads : Bar0Read(r.offset, Fill(r.count, r.fill))
    \/ device_reset

Spec == Init /\ [][Next]_vars

(***************************************************************************)
(* The device with a short word list and entropy sources that deliver      *)
(***************************************************************************)
SureDraws == {[prim |-> 0, sec |-> 7779], [prim |-> FAIL, sec |-> 7779]}

NextGen ==
    \/ Startup(NoSeqOpt, NoSeqOpt, FALSE, NoIntOpt, PartialFile)
    \/ \E v \in {MIN_WORDS, MAX_WORDS} : Bar0Write(REG_PASSPHRASE_LENGTH, LE32(v), <<>>, NoUb)
    \/ \E a \in SureDraws, b \in SureDraws, k \in 1..MaxSplit, ub \in UbOutcomes :
          Bar0Write(REG_PASSPHRASE_CMD, LE32(1), DrawSeq(a, b, k), ub)
    \/ \E r \in RegReads : Bar0Read(r.offset, Fill(r.count, r.fill))
    \/ device_reset

SpecGen == Init /\ [][NextGen]_vars

(***************************************************************************)
(* The device serving BAR0 reads: many offsets and counts, few writes      *)
(***************************************************************************)
LongUuid == <<77, 79, 67, 75, 45, 80, 70, 45, 48, 48, 48, 48, 45, 48, 48, 48, 49, 50>>  \* 18 characters

CustomMemory == <<1, 2, 3, 4, 5, 6, 7, 8>>

ReadOffsets == (0..51) \cup (255..272) \cup (510..513) \cup (760..769) \cup {BAR0_SIZE - 1}

ReadCounts == {1, 4, 9}

PrefillByte == 170                 \* 0xAA, what the caller's buffer holds before a read

GoodDraws == DrawSeq([prim |-> 0, sec |-> 7779], [prim |-> 0, sec |-> 7779], 1)

NextRead ==
    \/ Startup(NoSeqOpt, NoSeqOpt, FALSE, NoIntOpt, PartialFile)
    \/ Startup([set |-> TRUE, val |-> LongUuid], [set |-> TRUE, val |-> CustomMemory], TRUE,
               NoIntOpt, PartialFile)
    \/ Bar0Write(REG_PASSPHRASE_LENGTH, LE32(MAX_WORDS), <<>>, NoUb)
    \/ Bar0Write(REG_PASSPHRASE_CMD, LE32(1), GoodDraws, NoUb)
    \/ \E offset \in ReadOffsets, count \in ReadCounts : Bar0Read(offset, Fill(count, PrefillByte))
    \/ \E r \in RegReads : Bar0Read(r.offset, Fill(r.count, r.fill))

SpecRead == Init /\ [][NextRead]_vars

(***************************************************************************)
(* The device serving configuration-space accesses, for every --total-vfs  *)
(***************************************************************************)
TotalVfsOpts ==
    {NoIntOpt} \cup {[set |-> TRUE, val |-> v] : v \in (0..MaxTotalVfsArg) \cup {0 - 1, 65540, 65544}}

\* configuration reads: offset and count, inside the 4096-byte region
CfgReads ==
    {<<0, 4>>, <<4, 2>>, <<250, 6>>, <<252, 8>>, <<254, 36>>, <<255, 1>>, <<255, 2>>, <<256, 1>>, <<256, 4>>,
     <<256, 28>>, <<256, 32>>, <<268, 4>>, <<280, 2>>, <<280, 8>>, <<282, 2>>, <<283, 2>>,
     <<284, 4>>, <<300, 1>>, <<CONFIG_REGION_SIZE - 4, 4>>}

CfgWrites ==
    {[offset |-> 4, data |-> <<6, 4>>],
     [offset |-> 254, data |-> <<9, 8, 7, 6>>],
     [offset |-> 264, data |-> <<1, 0>>]}

NextCfg ==
    \/ \E vfOpt \in BOOLEAN, tvOpt \in TotalVfsOpts : Startup(NoSeqOpt, NoSeqOpt, vfOpt, tvOpt, NoFile)
    \/ \E r \in CfgReads : ConfigRead(r[1], Fill(r[2], PrefillByte))
    \/ \E w \in CfgWrites : ConfigWrite(w.offset, w.data)
    \/ device_reset

SpecCfg == Init /\ [][NextCfg]_vars

(***************************************************************************)
(* The device serving every kind of event: BAR0 accesses, configuration    *)
(* accesses and resets                                                     *)
(***************************************************************************)
AllWrites ==
    {[offset |-> REG_STATUS, data |-> <<255, 255, 255, 255>>],
     [offset |-> REG_PASSPHRASE_LENGTH, data |-> <<4, 0, 0, 0>>],
     [offset |-> REG_PASSPHRASE_LENGTH, data |-> <<13, 0, 0, 0>>],
     [offset |-> REG_PASSPHRASE_CMD, data |-> <<2, 0, 0, 0>>],
     [offset |-> REG_PASSPHRASE_BUFFER, data |-> <<65, 65, 65, 65>>]}

AllReads ==
    {[offset |-> REG_STATUS, count |-> 4, fill |-> 0],
     [offset |-> REG_PASSPHRASE_LENGTH, count |-> 4, fill |-> 0],
     [offset |-> REG_PASSPHRASE_STATUS, count |-> 4, fill |-> 0],
     [offset |-> REG_PASSPHRASE_BUFFER, count |-> PASSPHRASE_BUFFER_SIZE, fill |-> 0],
     [offset |-> REG_UUID + 12, count |-> 8, fill |-> PrefillByte]}

AllCfgReads == {<<0, 4>>, <<4, 2>>, <<254, 36>>}

NextAll ==
    \/ \E vfOpt \in BOOLEAN, file \in {NoFile, PartialFile} :
          Startup(NoSeqOpt, NoSeqOpt, vfOpt, NoIntOpt, file)
    \/ \E w \in AllWrites : Bar0Write(w.offset, w.data, <<>>, NoUb)
    \/ \E a \in EntropyDraws, ub \in UbOutcomes :
          Bar0Write(REG_PASSPHRASE_CMD, LE32(1), DrawSeq([prim |-> 0, sec |-> 7779], a, MaxSplit), ub)
    \/ \E r \in AllReads : Bar0Read(r.offset, Fill(r.count, r.fill))
    \/ \E r \in AllCfgReads : ConfigRead(r[1], Fill(r[2], PrefillByte))
    \/ \E w \in CfgWrites : ConfigWrite(w.offset, w.data)
    \/ device_reset

SpecAll == Init /\ [][NextAll]_vars

(***************************************************************************)
(* The kernel driver: probe, wordlist reloads and passphrase ioctls        *)
(***************************************************************************)
FwMissing == [err |-> ENOENT, lines |-> <<>>]

FwEmpty == [err |-> 0, lines |-> << <<>>, <<SPACE, TAB>> >>]

\* "  ab<CR>", an empty line, "c d ", "e"
FwShort == [err |-> 0,
            lines |-> << <<SPACE, SPACE, 97, 98, CR>>, <<>>, <<99, SPACE, 100, SPACE>>, <<101>> >>]

FwLong == [err |-> 0, lines |-> << LongWord, <<TAB>> \o LongWord \o <<CR>> >>]

FirmwareFiles == {FwMissing, FwEmpty, FwShort, FwLong}

AllocFailures == {"none", "array", "data", "word"}

UserWordCounts == {0, 1, 3, 4, 12, 13, WORD_COUNT_RANGE - 1}

\* what get_random_bytes puts into indices[]: a for the first word, b after it
IndexSeq(a, b) == [i \in 1..MOCK_ACCEL_MAX_WORDS |-> IF i = 1 THEN a ELSE b]

RandomU16 == {0, 1, U16_RANGE - 1}

\* the TotalVFs word a probe may find
CapTotalVfs == {0, DEFAULT_TOTAL_VFS}

\* what is written to sriov_numvfs, after kstrtoint
NumVfsWrites ==
    {[err |-> 0, val |-> v] : v \in (0 - 1)..(DEFAULT_TOTAL_VFS + 1)} \cup {[err |-> EINVAL, val |-> 0]}

NextDrv ==
    \/ \E fw \in FirmwareFiles, alloc \in AllocFailures, probe_err \in {0, ENOMEM} :
          mock_accel_probe(FALSE, DEFAULT_TOTAL_VFS, fw, alloc, probe_err)
    \/ \E fw \in FirmwareFiles, alloc \in AllocFailures : load_wordlist_store(1, fw, alloc)
    \/ \E wc \in UserWordCounts, a \in RandomU16, b \in RandomU16, ua \in {"ok", "from", "to"} :
          mock_accel_ioctl([word_count |-> wc, passphrase |-> Fill(PASSPHRASE_FIELD_SIZE, PrefillByte)],
                           IndexSeq(a, b), ua)

SpecDrv == Init /\ [][NextDrv]_vars

(***************************************************************************)
(* The kernel driver: probe of a PF or a VF and sriov_numvfs stores        *)
(***************************************************************************)
NextSriov ==
    \/ \E virtfn \in BOOLEAN, tv \in CapTotalVfs, fw \in {FwMissing, FwShort},
          probe_err \in {0, ENOMEM} :
          mock_accel_probe(virtfn, tv, fw, "none", probe_err)
    \/ \E w \in NumVfsWrites, enable_err \in {0, ENOMEM} : sriov_numvfs_store(2, w, enable_err)
    \/ load_wordlist_store(1, FwShort, "none")

SpecSriov == Init /\ [][NextSriov]_vars

(***************************************************************************)
(* Properties                                                              *)
(***************************************************************************)
\* the distinct words the loaded dictionary holds
DictWords ==
    {wordlist.head[i] : i \in 1..Len(wordlist.head)}
        \cup (IF wordlist.count > Len(wordlist.head) THEN {wordlist.fill} ELSE {})

\* buf, from index pos on, is k dictionary words joined by single separators
\* and followed by a terminator
RECURSIVE HoldsWords(_, _, _)
HoldsWords(buf, pos, k) ==
    \E w \in DictWords :
        /\ pos + Len(w) <= Len(buf)
        /\ SubSeq(buf, pos, pos + Len(w) - 1) = w
        /\ IF k = 1 THEN buf[pos + Len(w)] = 0
           ELSE buf[pos + Len(w)] = SPACE /\ HoldsWords(buf, pos + Len(w) + 1, k - 1)

IsGenerateOp(o) == o.kind = "write" /\ o.offset = 256 /\ o.count = 4 /\ o.data = <<1, 0, 0, 0>>

\* C1: after a 4-byte write of 1 to PassphraseCommand, with the configured
\* length in 4..12 and a non-empty dictionary, PassphraseStatus is Ready(2),
\* PassphraseWordsGenerated is the configured length and the buffer holds that
\* many dictionary words joined by single separators and terminated.
C1_GenerateSucceeds ==
    (IsGenerateOp(op) /\ passphrase_length >= 4 /\ passphrase_length <= 12 /\ wordlist.count > 0)
        => /\ pc = "serving"
           /\ passphrase_status = 2
           /\ passphrase_count = passphrase_length
           /\ HoldsWords(passphrase_buffer, 1, passphrase_length)

\* C2: a 4-byte write of v to PassphraseLength succeeds iff 4 <= v <= 12; on
\* success the register reads back v, on failure the access returns a fault
\* and the register keeps its previous value.
C2_LengthWrite ==
    [][(op'.kind = "write" /\ op'.offset = 260 /\ op'.count = 4)
         => /\ (ret' = 4) <=> (U32(op'.data) >= 4 /\ U32(op'.data) <= 12)
            /\ (ret' = 4) => /\ passphrase_length' = U32(op'.data)
                             /\ Bar0ReadResult(260, Fill(4, 170))' = [ret |-> 4, buf |-> op'.data]
            /\ (ret' # 4) => /\ ret' = 0 - 1
                             /\ passphrase_length' = passphrase_length
                             /\ Bar0ReadResult(260, Fill(4, 170))'
                                    = Bar0ReadResult(260, Fill(4, 170))]_vars

C2_Witness ==
    /\ op.kind = "write" /\ op.offset = 260 /\ op.count = 4 /\ op.data = <<13, 0, 0, 0>>
    /\ ret = 0 - 1
    /\ passphrase_length = 12

\* the offsets no register of the map covers
OutsideMap(offset) ==
    ~ \/ offset \in 0..23          \* DeviceIdMagic, Revision, Uuid
      \/ offset \in 32..51         \* MemorySize, Capabilities, Status, FwVersion
      \/ offset \in 256..271       \* PassphraseCommand, Length, Status, WordsGenerated
      \/ offset \in 512..767       \* PassphraseBuffer

\* C3: a read at an offset outside the register map returns count bytes, all
\* zero, and never faults, in every device state.
C3_UndefinedReadsZero ==
    (op.kind = "read" /\ OutsideMap(op.offset))
        => /\ ret = op.count
           /\ Len(obuf) = op.count
           /\ \A i \in 1..op.count : obuf[i] = 0

C3_Witness ==
    /\ op.kind = "read" /\ op.offset = 24 /\ op.count = 9 /\ op.data = Fill(9, 170)
    /\ passphrase_status = 2

\* C4: a reset leaves RuntimeStatus at the ready bitmask, PassphraseStatus
\* Idle(0), PassphraseWordsGenerated 0 and every byte of the buffer zero.
C4_Reset ==
    op.kind = "reset"
        => /\ status = <<1, 0, 0, 0>>
           /\ passphrase_status = 0
           /\ passphrase_count = 0
           /\ Len(passphrase_buffer) = 256
           /\ \A i \in 1..256 : passphrase_buffer[i] = 0

C4_Witness == op.kind = "reset" /\ passphrase_length = 12 /\ pc = "serving"

\* the byte the configuration space holds at an address
CfgByte(a) ==
    IF a < 256 THEN config_space[a + 1]
    ELSE IF a < 256 + sriov_cap_size THEN sriov_cap[a - 256 + 1]
    ELSE 255

\* C5: a configuration read (offset, count) on a physical function returns
\* count, and output byte i is the header byte below 256, the capability byte
\* inside the capability, 0xFF beyond it.
C5_ConfigRead ==
    op.kind = "cfgread"
        => /\ ret = op.count
           /\ Len(obuf) = op.count
           /\ \A i \in 0..(op.count - 1) : obuf[i + 1] = CfgByte(op.offset + i)

C5_Witness ==
    /\ op.kind = "cfgread" /\ op.offset = 254 /\ op.count = 36
    /\ sriov_cap_size > 0
    /\ config_space[255] = 9

\* C6: for totalVfs in 1..7 the capability of a physical function starts with
\* 10 00 01 00, has SR-IOV Capabilities bit 0 set, Control = Status = 0,
\* InitialVFs = TotalVFs = totalVfs (little-endian) and NumVFs = 0.
C6_SriovLayout ==
    (pc = "serving" /\ ~is_vf /\ total_vfs >= 1 /\ total_vfs <= 7)
        => /\ SubSeq(sriov_cap, 1, 4) = <<16, 0, 1, 0>>
           /\ SubSeq(sriov_cap, 5, 8) = <<1, 0, 0, 0>>
           /\ SubSeq(sriov_cap, 9, 12) = <<0, 0, 0, 0>>
           /\ sriov_cap[13] + 256 * sriov_cap[14] = total_vfs
           /\ sriov_cap[15] + 256 * sriov_cap[16] = total_vfs
           /\ SubSeq(sriov_cap, 17, 18) = <<0, 0>>

C6_Witness == pc = "serving" /\ ~is_vf /\ total_vfs = 7 /\ op.kind = "startup"

BuiltCap == pc = "serving" /\ ~is_vf /\ total_vfs > 0

AllFF(buf) == \A i \in 1..Len(buf) : buf[i] = 255

\* C7 as stated: the capability is 26 bytes, First VF Offset = 1 at 20-21,
\* VF Stride = 1 at 22-23, the VF device id at 24-25; configuration bytes
\* 256+24..256+25 read the VF device id and 256+26 onward reads 0xFF.
C7_Original ==
    BuiltCap
        => /\ sriov_cap_size = 26
           /\ SubSeq(sriov_cap, 21, 24) = <<1, 0, 1, 0>>
           /\ SubSeq(sriov_cap, 25, 26) = <<2, 0>>
           /\ (op.kind = "cfgread" /\ op.offset = 280 /\ op.count = 2) => obuf = <<2, 0>>
           /\ (op.kind = "cfgread" /\ op.offset >= 282) => AllFF(obuf)

\* C7 amended: the capability is 28 bytes, First VF Offset = 1 at 20-21,
\* VF Stride = 1 at 22-23, two reserved zero bytes at 24-25, the VF device id
\* at 26-27; configuration bytes 256+26..256+27 read the VF device id and
\* 256+28 onward reads 0xFF.
C7_Amended ==
    BuiltCap
        => /\ sriov_cap_size = 28
           /\ SubSeq(sriov_cap, 21, 24) = <<1, 0, 1, 0>>
           /\ SubSeq(sriov_cap, 25, 26) = <<0, 0>>
           /\ SubSeq(sriov_cap, 27, 28) = <<2, 0>>
           /\ (op.kind = "cfgread" /\ op.offset = 280 /\ op.count = 2) => obuf = <<0, 0>>
           /\ (op.kind = "cfgread" /\ op.offset = 282 /\ op.count = 2) => obuf = <<2, 0>>
           /\ (op.kind = "cfgread" /\ op.offset >= 284) => AllFF(obuf)

C7_Witness == BuiltCap /\ op.kind = "cfgread" /\ op.offset = 282 /\ op.count = 2

\* C8: startup is refused for every totalVfs above 7, and no device context
\* with totalVfs > 7 ever serves an access.
C8_TotalVfsCap ==
    /\ total_vfs > 7 => pc = "exited"
    /\ op.kind \in {"read", "write", "cfgread", "cfgwrite", "reset"} => total_vfs <= 7

C8_Witness == pc = "exited" /\ total_vfs = 8 /\ op.kind = "startup"

\* the offsets inside a read-only register
InReadOnlyReg(offset) ==
    \/ offset \in 0..23            \* DeviceIdMagic, Revision, Uuid
    \/ offset \in 32..43           \* MemorySize, Capabilities
    \/ offset \in 48..51           \* FwVersion
    \/ offset \in 264..271         \* PassphraseStatus, PassphraseWordsGenerated
    \/ offset \in 512..767         \* PassphraseBuffer

\* C9: two reads of a read-only register with the same (offset, count) and no
\* write between them return identical bytes and identical byte counts.
C9_RepeatedRead ==
    [][(op.kind = "read" /\ op'.kind = "read" /\ op'.offset = op.offset /\ op'.count = op.count
          /\ InReadOnlyReg(op.offset))
         => (ret' = ret /\ obuf' = obuf)]_vars

\* C10: a BAR0 write that is not a 4-byte write at Status, PassphraseLength or
\* PassphraseCommand is a failed access and leaves the device state unchanged.
C10_OtherWritesFault ==
    [][(op'.kind = "write" /\ ~(op'.count = 4 /\ op'.offset \in {44, 260, 256}))
         => (ret' = 0 - 1 /\ UNCHANGED <<pc, device>>)]_vars

C10_Witness ==
    /\ op.kind = "write" /\ op.offset = 260 /\ op.count = 8
    /\ ret = 0 - 1
    /\ passphrase_status = 2

\* C11: a 4-byte write to PassphraseCommand with a value other than 1 is a
\* successful access and changes nothing.
C11_OtherCommandNoEffect ==
    [][(op'.kind = "write" /\ op'.offset = 256 /\ op'.count = 4 /\ op'.data # <<1, 0, 0, 0>>)
         => (ret' = 4 /\ UNCHANGED <<pc, device>>)]_vars

C11_Witness ==
    /\ op.kind = "write" /\ op.offset = 256 /\ op.count = 4 /\ op.data = <<1, 1, 0, 0>>
    /\ ret = 4
    /\ passphrase_status = 2

\* C12: a 4-byte write of 1 to PassphraseCommand always returns success to
\* the caller; a failed generation shows only as PassphraseStatus = Error(3).
C12_GenerateReturnsSuccess ==
    IsGenerateOp(op) => (ret = 4 /\ pc = "serving" /\ passphrase_status \in {2, 3})

\* C13: when PassphraseCommand=1 is written while the configured word count
\* is outside 4..12 (also the count held at startup) or the dictionary is
\* empty, the call ends with PassphraseStatus = Error(3) and produces no
\* passphrase: buffer and words generated are what they were.
C13_InvalidRequestIsError ==
    [][(IsGenerateOp(op') /\ (passphrase_length < 4 \/ passphrase_length > 12 \/ wordlist.count = 0))
         => /\ passphrase_status' = 3
            /\ ret' = 4
            /\ UNCHANGED <<pc, passphrase_buffer, passphrase_count, passphrase_length>>]_vars

C13_Witness ==
    /\ IsGenerateOp(op)
    /\ passphrase_length = 0
    /\ wordlist.count > 0
    /\ passphrase_status = 3

\* C14: in every state of the serving device, from its creation on, the
\* configured word count is in 4..12, and so is what a 4-byte read of
\* PassphraseLength returns.
C14_LengthInRange ==
    pc = "serving" =>
        /\ passphrase_length >= 4 /\ passphrase_length <= 12
        /\ (op.kind = "read" /\ op.offset = 260 /\ op.count = 4 /\ ret = 4)
              => (U32(obuf) >= 4 /\ U32(obuf) <= 12)

\* C15: between callbacks PassphraseStatus is Idle(0), Ready(2) or Error(3),
\* never Busy(1) and never any other value.
C15_BusyIsTransient == pc = "serving" => passphrase_status \in {0, 2, 3}

\* a generation that set Busy and then failed inside the loop has returned
C15_Witness ==
    /\ pc = "serving"
    /\ IsGenerateOp(op)
    /\ passphrase_length >= 4 /\ wordlist.count > 0
    /\ passphrase_status = 3
    /\ is_vf

\* C16: every write of 1 to PassphraseCommand runs to its end inside the
\* callback, for every dictionary and every configured length, and leaves
\* PassphraseStatus at Ready(2) or Error(3).
C16_GenerateTerminates ==
    IsGenerateOp(op) => (ret # NO_RETURN /\ passphrase_status \in {2, 3})

\* the fixed-width registers: offset, and the little-endian bytes of the value
FixedRegs == {0, 4, 32, 40, 44, 48, 260, 264, 268}

RegBytes(offset) ==
    IF offset = 0 THEN DEVICE_ID_MAGIC
    ELSE IF offset = 4 THEN REVISION
    ELSE IF offset = 32 THEN memory_size
    ELSE IF offset = 40 THEN capabilities
    ELSE IF offset = 44 THEN status
    ELSE IF offset = 48 THEN FW_VERSION
    ELSE IF offset = 260 THEN LE32(passphrase_length)
    ELSE IF offset = 264 THEN LE32(passphrase_status)
    ELSE LE32(passphrase_count)

\* C17: a read of a fixed-width register with count greater than its width
\* leaves the little-endian value in the first width bytes of the buffer and
\* zero in every remaining byte; a read with count <= width leaves the low
\* count bytes of the value.
C17_FixedWidthRead ==
    (op.kind = "read" /\ op.offset \in FixedRegs)
        => /\ Len(obuf) = op.count
           /\ \A i \in 1..op.count :
                 obuf[i] = IF i <= Len(RegBytes(op.offset)) THEN RegBytes(op.offset)[i] ELSE 0

C17_Witness ==
    /\ op.kind = "read" /\ op.offset = 32 /\ op.count = 9 /\ op.data = Fill(9, PrefillByte)
    /\ memory_size = CustomMemory
    /\ obuf = CustomMemory \o <<0>>

\* the SR-IOV capability as a configuration read at 0x100 returns it
CapReadBack == CfgReadBuf(STD_CONFIG_SIZE, Zeros(SRIOV_CAP_ARRAY))

\* C18: a configuration write returns count and changes only the bytes of
\* the standard header that it covers below offset 256: a write in the
\* extended space changes nothing, a write across offset 256 applies only its
\* bytes below 256, and the SR-IOV capability reads back as before.
C18_ConfigWriteFrame ==
    [][op'.kind = "cfgwrite"
         => /\ ret' = op'.count
            /\ UNCHANGED <<pc, device>>
            /\ Len(config_space') = STD_CONFIG_SIZE
            /\ \A i \in 0..(STD_CONFIG_SIZE - 1) :
                  config_space'[i + 1] =
                     IF i >= op'.offset /\ i < op'.offset + op'.count
                     THEN op'.data[i - op'.offset + 1]
                     ELSE config_space[i + 1]
            /\ CapReadBack' = CapReadBack]_vars

C18_Witness ==
    /\ op.kind = "cfgwrite" /\ op.offset = 254 /\ op.count = 4
    /\ config_space[255] = 9 /\ config_space[256] = 8
    /\ config_space[5] = 6
    /\ sriov_cap_size > 0

\* C19: the identity (uuid bytes, memory size, capabilities), the SR-IOV
\* capability bytes and the dictionary are what they were at device creation
\* after every BAR0 access, configuration access, generation and reset.
C19_IdentityFrozen == [][pc = "serving" => UNCHANGED ident]_vars

C19_Witness ==
    /\ op.kind = "cfgwrite" /\ op.offset = 264
    /\ sriov_cap_size > 0
    /\ SubSeq(sriov_cap, 1, sriov_cap_size) = SubSeq(BuildSriovCap(total_vfs), 1, sriov_cap_size)
    /\ wordlist.count = 3
    /\ passphrase_count = 4
    /\ status = <<255, 255, 255, 255>>

\* C20: PassphraseStatus, PassphraseWordsGenerated and the passphrase buffer
\* change only in a PassphraseCommand=1 write or a reset.
C20_PassphraseFrame ==
    [][(pc = "serving" /\ <<passphrase_status, passphrase_count, passphrase_buffer>>'
                            # <<passphrase_status, passphrase_count, passphrase_buffer>>)
         => (IsGenerateOp(op') \/ op'.kind = "reset")]_vars

C20_Witness ==
    /\ op.kind = "read" /\ op.offset = REG_PASSPHRASE_BUFFER
    /\ passphrase_status = 2
    /\ passphrase_count = 4
    /\ obuf = passphrase_buffer
    /\ obuf[1] # 0

\* the last callback was a generation that went past both checks, returned,
\* and met no unfilled dictionary slot
RanLoop(o, len) == IsGenerateOp(o) /\ LengthValid(len) /\ WordlistLoaded /\ ~o.ub.hit

\* C21: every generation call resets the passphrase state: after the call
\* PassphraseWordsGenerated is the count of this call when it reached Ready
\* and otherwise carries nothing over from an earlier generation (it is 0),
\* and the buffer holds this call's words and nothing else.
C21_GenerateResets ==
    [][(IsGenerateOp(op') /\ pc' = "serving" /\ ~op'.ub.hit)
         => /\ passphrase_count' = IF passphrase_status' = 2 THEN passphrase_length ELSE 0
            /\ passphrase_status' = 2 => HoldsWords(passphrase_buffer', 1, passphrase_length)
            /\ (~LengthValid(passphrase_length) \/ ~WordlistLoaded)
                  => passphrase_buffer' = Zeros(PASSPHRASE_BUFFER_SIZE)]_vars

\* bytes the first n words of a generation need, separators included, when
\* every draw delivers
RECURSIVE NeedLen(_, _)
NeedLen(draws, n) ==
    IF n = 0 THEN 0
    ELSE NeedLen(draws, n - 1) + (IF n > 1 THEN 1 ELSE 0)
            + Len(WordAt(WordIndex(DrawValue(draws[n]))))

AllDelivered(draws, n) == \A i \in 1..n : DrawValue(draws[i]) # FAIL

\* C22: a generation whose words and separators would exceed 255 bytes ends
\* with PassphraseStatus = Error(3); Ready is reached only when the whole
\* passphrase fits in 255 bytes, the terminator follows it, and the buffer
\* never holds more than its 256 bytes.
C22_OverflowIsError ==
    /\ Len(passphrase_buffer) = PASSPHRASE_BUFFER_SIZE
    /\ passphrase_buffer[PASSPHRASE_BUFFER_SIZE] = 0
    /\ (RanLoop(op, passphrase_length) /\ pc = "serving" /\ AllDelivered(op.draws, passphrase_length))
          => LET need == NeedLen(op.draws, passphrase_length)
             IN  IF need > PASSPHRASE_BUFFER_SIZE - 1
                 THEN passphrase_status = 3
                 ELSE /\ passphrase_status = 2
                      /\ \A i \in 1..PASSPHRASE_BUFFER_SIZE : (passphrase_buffer[i] # 0) = (i <= need)

\* twelve long words do not fit
C22_Witness ==
    /\ RanLoop(op, passphrase_length)
    /\ passphrase_length = 12
    /\ \A i \in 1..12 : op.draws[i].prim = 0
    /\ wordlist.count = WORDLIST_SLOTS
    /\ passphrase_status = 3
    /\ passphrase_buffer[PASSPHRASE_BUFFER_SIZE - 1] # 0

\* the source a draw takes its value from: the primary one, the secondary
\* one only when the primary failed
Delivered(d) == IF d.prim # FAIL THEN d.prim ELSE d.sec

BothFail(d) == d.prim = FAIL /\ d.sec = FAIL

\* C23: a draw uses the primary entropy source and the secondary one only
\* when the primary failed; a generation in which a draw finds both sources
\* failing ends with PassphraseStatus = Error(3), and Ready is reached only
\* when each of the draws got its value from a source that delivered.
C23_EntropyPolicy ==
    (IsGenerateOp(op) /\ LengthValid(passphrase_length) /\ WordlistLoaded /\ pc = "serving")
        => /\ (\E i \in 1..passphrase_length : BothFail(op.draws[i])) => passphrase_status = 3
           /\ passphrase_status = 2 => \A i \in 1..passphrase_length : ~BothFail(op.draws[i])
           /\ (passphrase_status = 2 /\ ~op.ub.hit)
                 => LET first == WordAt(Delivered(op.draws[1]) % 7776)
                    IN  SubSeq(passphrase_buffer, 1, Len(first)) = first

\* the fallback was used for every word and the generation reached Ready
C23_Witness ==
    /\ IsGenerateOp(op)
    /\ wordlist.count = WORDLIST_SLOTS
    /\ \A i \in 1..12 : op.draws[i].prim = FAIL /\ op.draws[i].sec = 7779
    /\ passphrase_length = 12
    /\ passphrase_status = 2

\* C24: every word index chosen during a generation is below the number of
\* words loaded, so no generation selects a slot that was never filled.
C24_IndexInDictionary == IsGenerateOp(op) => ~op.ub.hit

\* C25: a read inside the Uuid window, k bytes into it, with count n delivers
\* uuid bytes k..k+min(n,16-k)-1, touches nothing else of the caller's
\* buffer, and reports min(n,16-k) bytes as served.
C25_UuidRead ==
    (op.kind = "read" /\ InUuid(op.offset))
        => LET k == op.offset - REG_UUID
               m == Min(op.count, 16 - k)
           IN  /\ \A i \in 1..m : obuf[i] = uuid_bytes[k + i]
               /\ \A i \in (m + 1)..op.count : obuf[i] = op.data[i]
               /\ ret = m

\* C26: a read inside the passphrase buffer window, k bytes into it, with
\* count n returns min(n, 256-k), delivers buffer bytes k..k+min(n,256-k)-1
\* and touches nothing beyond them.
C26_BufferRead ==
    (op.kind = "read" /\ InBuffer(op.offset))
        => LET k == op.offset - REG_PASSPHRASE_BUFFER
               m == Min(op.count, 256 - k)
           IN  /\ ret = m
               /\ \A i \in 1..m : obuf[i] = passphrase_buffer[k + i]
               /\ \A i \in (m + 1)..op.count : obuf[i] = op.data[i]

C26_Witness ==
    /\ op.kind = "read" /\ op.offset = REG_PASSPHRASE_BUFFER + 253 /\ op.count = 9
    /\ ret = 3
    /\ obuf[4] = PrefillByte
    /\ passphrase_status = 2
    /\ passphrase_buffer[1] # 0

IsStatusWriteOp(o) == o.kind = "write" /\ o.offset = 44 /\ o.count = 4

\* C28: RuntimeStatus changes only in a 4-byte write to Status, which stores
\* the value written, and in a reset; every other callback leaves it as it
\* was, and a 4-byte read of Status returns it.
C28_StatusFrame ==
    [][pc = "serving"
         => /\ IsStatusWriteOp(op') => status' = op'.data
            /\ (~IsStatusWriteOp(op') /\ op'.kind # "reset") => status' = status
            /\ (op'.kind = "read" /\ op'.offset = 44 /\ op'.count = 4) => obuf' = status]_vars

\* the value written is read back after a generation
C28_Witness ==
    /\ op.kind = "read" /\ op.offset = 44 /\ op.count = 4
    /\ obuf = <<255, 255, 255, 255>>
    /\ passphrase_status = 2

\* C29: a 4-byte read at 0x20 returns the low 32 bits of memorySize and a
\* 4-byte read at 0x24 its high 32 bits.
C29_MemorySizeHalves ==
    /\ (op.kind = "read" /\ op.offset = 32 /\ op.count = 4) => obuf = SubSeq(memory_size, 1, 4)
    /\ (op.kind = "read" /\ op.offset = 36 /\ op.count = 4) => obuf = SubSeq(memory_size, 5, 8)

\* C30: a reset leaves the configured word count as it was, and a generation
\* that follows the reset produces that many words.
C30_ResetKeepsLength ==
    [][/\ op'.kind = "reset" => passphrase_length' = passphrase_length
       /\ (op.kind = "reset" /\ IsGenerateOp(op') /\ passphrase_status' = 2)
             => (passphrase_count' = passphrase_length /\ passphrase_length' = passphrase_length)]_vars

C30_Witness ==
    /\ op.kind = "reset"
    /\ passphrase_length = 4
    /\ passphrase_status = 0
    /\ wordlist.count > 0

\* the driver holds a wordlist with at least one word
DrvLoaded == mdev.wordlist # NULLPTR /\ mdev.wordlist_count > 0

DrvWords == {mdev.wordlist[i] : i \in 1..mdev.wordlist_count}

\* buf, from index pos on, is k words of the driver's wordlist joined by
\* single hyphens and followed by a NUL
RECURSIVE DrvHolds(_, _, _)
DrvHolds(buf, pos, k) ==
    \E w \in DrvWords :
        /\ pos + Len(w) <= Len(buf)
        /\ SubSeq(buf, pos, pos + Len(w) - 1) = w
        /\ IF k = 1 THEN buf[pos + Len(w)] = 0
           ELSE buf[pos + Len(w)] = HYPHEN /\ DrvHolds(buf, pos + Len(w) + 1, k - 1)

\* the words an ioctl asks for: 6 for a word_count of 0
Asked(o) == IF o.count = 0 THEN 6 ELSE o.count

\* bytes the first n words chosen by the indices take, hyphens included
RECURSIVE DrvNeed(_, _)
DrvNeed(indices, n) ==
    IF n = 0 THEN 0
    ELSE DrvNeed(indices, n - 1) + (IF n > 1 THEN 1 ELSE 0)
            + Len(mdev.wordlist[(indices[n] % mdev.wordlist_count) + 1])

IsPassphraseIoctl(o) == o.kind = "ioctl" /\ o.uaccess = "ok"

\* C27 as stated: with a wordlist loaded, a passphrase ioctl with word_count 0
\* yields 6 words, with word_count in 1..12 that many words joined by single
\* hyphens and NUL-terminated, and with word_count > 12 EINVAL and nothing
\* copied to the caller; with no wordlist loaded every request returns ENOENT.
C27_Original ==
    IsPassphraseIoctl(op)
        => IF DrvLoaded
           THEN IF op.count > 12
                THEN ret = 0 - EINVAL /\ obuf = op.data
                ELSE ret = 0 /\ DrvHolds(obuf, 1, Asked(op))
           ELSE ret = 0 - ENOENT

\* C27, amended: word_count > 12 returns EINVAL whether or not a wordlist is
\* loaded; otherwise no wordlist returns ENOENT; otherwise the chosen words
\* are returned joined by single hyphens and NUL-terminated when they and
\* their hyphens take at most 254 bytes, and ENOSPC is returned when they
\* take more; every error leaves the caller's buffer as it was.
C27_Amended ==
    IsPassphraseIoctl(op)
        => IF op.count > 12 THEN ret = 0 - EINVAL /\ obuf = op.data
           ELSE IF ~DrvLoaded THEN ret = 0 - ENOENT /\ obuf = op.data
           ELSE LET need == DrvNeed(op.draws, Asked(op))
                IN  IF need > PASSPHRASE_FIELD_SIZE - 2
                    THEN ret = 0 - ENOSPC /\ obuf = op.data
                    ELSE /\ ret = 0
                         /\ DrvHolds(obuf, 1, Asked(op))
                         /\ obuf[need + 1] = 0

\* the default of 6 words, drawn from a three-word list
C27_Witness ==
    /\ IsPassphraseIoctl(op)
    /\ op.count = 0
    /\ mdev.wordlist_count = 3
    /\ ret = 0
    /\ DrvHolds(obuf, 1, 6)
    /\ op.draws[1] # op.draws[2]

\* C31: no read has a side effect: a BAR0 read and a configuration read
\* leave the device state and the standard header as they were.
C31_ReadsArePure ==
    [][op'.kind \in {"read", "cfgread"} => UNCHANGED <<pc, device, config_space>>]_vars

C31_Witness ==
    /\ op.kind = "cfgread" /\ op.offset = 4 /\ op.count = 2
    /\ obuf = <<6, 4>>
    /\ passphrase_status = 2
    /\ status = <<255, 255, 255, 255>>

C33_BufferTerminated ==
    /\ Len(passphrase_buffer) = PASSPHRASE_BUFFER_SIZE
    /\ passphrase_buffer[PASSPHRASE_BUFFER_SIZE] = 0

\* a generation that wrote a word and then found both entropy sources failing
C33_Witness ==
    /\ IsGenerateOp(op)
    /\ passphrase_status = 3
    /\ BothFail(op.draws[2])
    /\ passphrase_buffer[1] # 0
    /\ passphrase_buffer[LongWordLen + 1] = 0

\* C34: on a physical function, a configuration read of (offset, count) that
\* follows a write of bytes b to the same (offset, count), offset + count <=
\* 256, returns b, and the write leaves the header bytes outside
\* [offset, offset + count) as they were.
C34_HeaderRoundTrip ==
    [][/\ (op.kind = "cfgwrite" /\ op.offset + op.count <= STD_CONFIG_SIZE
             /\ op'.kind = "cfgread" /\ op'.offset = op.offset /\ op'.count = op.count)
          => (obuf' = op.data /\ ret' = op.count)
       /\ (op'.kind = "cfgwrite" /\ op'.offset + op'.count <= STD_CONFIG_SIZE)
          => \A i \in 0..(STD_CONFIG_SIZE - 1) :
                (i < op'.offset \/ i >= op'.offset + op'.count)
                   => config_space'[i + 1] = config_space[i + 1]]_vars

C34_Witness ==
    /\ op.kind = "cfgread" /\ op.offset = 4 /\ op.count = 2
    /\ obuf = <<6, 4>>
    /\ config_space[255] = 9
    /\ ~is_vf

IsNumVfsStore(o) == o.kind = "sriov_numvfs"

\* C35: on a physical function sriov_num_vfs is the number of VFs the PCI
\* core has enabled and lies in 0..sriov_total_vfs; a store of a value below
\* 0 or above sriov_total_vfs returns EINVAL and changes nothing; a failed
\* enable leaves sriov_num_vfs at 0.
C35_SriovState ==
    [][/\ (mdev'.bound /\ ~mdev'.is_vf)
          => /\ mdev'.sriov_num_vfs = mdev'.pdev.enabled_vfs
             /\ mdev'.sriov_num_vfs >= 0
             /\ mdev'.sriov_num_vfs <= mdev'.sriov_total_vfs
       /\ (IsNumVfsStore(op') /\ ~mdev.is_vf /\ op'.data[1] = 0
             /\ (op'.offset < 0 \/ op'.offset > mdev.sriov_total_vfs))
          => (ret' = 0 - EINVAL /\ mdev' = mdev)
       /\ (IsNumVfsStore(op') /\ ~mdev.is_vf /\ op'.data[1] = 0
             /\ op'.offset > 0 /\ op'.offset <= mdev.sriov_total_vfs /\ op'.data[2] # 0)
          => (ret' = 0 - op'.data[2] /\ mdev'.sriov_num_vfs = 0 /\ mdev'.pdev.enabled_vfs = 0)]_vars

\* an enable that failed while VFs were enabled has left none
C35_Witness ==
    /\ IsNumVfsStore(op)
    /\ ret = 0 - ENOMEM
    /\ op.offset = DEFAULT_TOTAL_VFS
    /\ mdev.sriov_total_vfs = DEFAULT_TOTAL_VFS
    /\ mdev.sriov_num_vfs = 0
    /\ mdev.pdev.enabled_vfs = 0

\* C36: from probe on, the wordlist_loaded attribute reads 1 exactly when a
\* wordlist with at least one word is loaded.
C36_WordlistFlag == mdev.bound => (mdev.wordlist_loaded <=> DrvLoaded)

====
